---- MODULE Spec2Model ----
(***************************************************************************)
(* Model of python/train_reid.py: the SolverWrapper training loop          *)
(* (_process/_init/_solve), the balanced sampler (_sample_data_ids), the   *)
(* hard-example miner (_find_hardest_samples) and the retrieval metrics    *)
(* (_calc_metrics/_compute_ap).                                            *)
(*                                                                         *)
(* Conventions.  Python sequences are 0-based; the model's sequences are   *)
(* 1-based, so a pool index, gallery index or rank n of the code is n+1    *)
(* here.  Python floats are modelled as exact rationals <<num, den>> in    *)
(* lowest terms with den > 0.  None is modelled by <<>> for an absent      *)
(* label array and by the pair <<0, 0>> for an absent rank-1 accuracy.     *)
(* The network (caffe solver) is external: its losses and embeddings are   *)
(* nondeterministic inputs of the steps that read them.                    *)
(***************************************************************************)
EXTENDS Integers, Sequences, FiniteSets, TLC

VARIABLES
    pc,                  \* position of the worker process in _process/_solve
    spc,                 \* position inside _sample_data_ids
    ids_by_label,        \* SampleDataFromDisk._ids_by_label
    param,               \* self.param: num_images, batch_size, sampler_fraction,
                         \* max_difficulty, max_difficulty_iter, snapshot, weights
    files,               \* the paths for which os.path.exists is true
    solver_loaded,       \* what _init_solver has loaded into self.solver
    difficulty,          \* self.difficulty (<<0,0>> before _solve sets it)
    solver_param,        \* self.solver.param: iter_size, max_iter
    num_samples,         \* self.num_samples
    train_iter,          \* self.train_iter
    virtual_batch_size,  \* self.virtual_batch_size (0 before _init)
    num_hardest,         \* self.num_hardest (0 before _init)
    query_label_blobs,   \* self.query_label_blobs (<<>> models None)
    gallery_label_blobs, \* self.gallery_label_blobs (<<>> models None)
    best_rank1_acc,      \* _solve local best_rank1_acc
    best_iter,           \* _solve local best_iter
    rank1_acc,           \* _solve local rank1_acc (<<0,0>> models None)
    all_labels,          \* _sample_data_ids local all_labels (shuffled)
    label_pos,           \* _sample_data_ids: position of the for loop
    data_ids,            \* _sample_data_ids local data_ids / _solve data_ids
    label_blobs,         \* self.label_blobs
    loss_values,         \* _solve local loss_values
    hard_sample_ids,     \* _solve local hard_sample_ids
    num_snapshots,       \* number of solver.snapshot() calls so far
    distances,           \* _calc_metrics argument distances[gallery][query]
    metrics              \* result of _calc_metrics

vars == <<pc, spc, ids_by_label, param, files, solver_loaded, difficulty,
          solver_param, num_samples, train_iter,
          virtual_batch_size, num_hardest, query_label_blobs,
          gallery_label_blobs, best_rank1_acc, best_iter, rank1_acc,
          all_labels, label_pos, data_ids, label_blobs, loss_values,
          hard_sample_ids, num_snapshots, distances, metrics>>

----------------------------------------------------------------------------
(* Bounds of the model. *)

MaxLines == 3      \* lines of the data manifest
MaxLabel == 2      \* labels are 1..MaxLabel
MaxImages == 2     \* --num_images of the sampler's own specification
MaxBatch == 2      \* --batch_size of the miner's own specification
MaxIterSize == 2   \* solver iter_size of the miner's own specification
MaxIter == 2       \* solver max_iter
MaxLoss == 2       \* loss values are 0..MaxLoss
MaxPool == 4       \* pool size of the miner's own specification
MaxGallery == 3    \* gallery size of the evaluator's own specification
MaxDist == 2       \* distances are 0..MaxDist
MaxDifficultyIter == 2  \* --max_difficulty_iter is 0..MaxDifficultyIter
MaxWeights == 2    \* comma-separated paths in --weights

----------------------------------------------------------------------------
(* Exact rationals standing for Python floats. *)

Abs(x) == IF x < 0 THEN -x ELSE x

RECURSIVE GCD(_, _)
GCD(a, b) == IF b = 0 THEN a ELSE GCD(b, a % b)

Rat(n, d) ==
    LET g == GCD(Abs(n), Abs(d))
        s == IF d < 0 THEN -1 ELSE 1
    IN  <<(s * n) \div g, (s * d) \div g>>

RAdd(a, b) == Rat(a[1] * b[2] + b[1] * a[2], a[2] * b[2])
RSub(a, b) == Rat(a[1] * b[2] - b[1] * a[2], a[2] * b[2])
RMul(a, b) == Rat(a[1] * b[1], a[2] * b[2])
RLess(a, b) == a[1] * b[2] < b[1] * a[2]
RLeq(a, b) == a[1] * b[2] <= b[1] * a[2]

RZero == <<0, 1>>
ROne == <<1, 1>>
RHalf == <<1, 2>>
NoneAcc == <<0, 0>>

RECURSIVE RSum(_)
RSum(s) == IF s = <<>> THEN RZero ELSE RAdd(Head(s), RSum(Tail(s)))

\* np.mean of a non-empty vector
RMean(s) == RMul(RSum(s), Rat(1, Len(s)))

----------------------------------------------------------------------------
(* list.sort(key=..., reverse=...): a stable sort.  The list is built by   *)
(* inserting the elements in their original order, each one behind every   *)
(* element that does not have to follow it, so equal keys keep their        *)
(* original order in both directions.                                       *)

\* InsertPos with equal keys entering in front: an unstable sort
RECURSIVE InsertPosUnstable(_, _, _, _)
InsertPosUnstable(s, x, key, reverse) ==
    IF s = <<>> THEN 1
    ELSE IF (IF reverse THEN key[Head(s)] <= key[x] ELSE key[Head(s)] >= key[x])
         THEN 1
         ELSE 1 + InsertPosUnstable(Tail(s), x, key, reverse)

\* position at which x enters the sorted list s
RECURSIVE InsertPos(_, _, _, _)
InsertPos(s, x, key, reverse) ==
    IF s = <<>> THEN 1
    ELSE IF (IF reverse THEN key[Head(s)] < key[x] ELSE key[Head(s)] > key[x])
         THEN 1
         ELSE 1 + InsertPos(Tail(s), x, key, reverse)

InsertAt(s, p, x) == SubSeq(s, 1, p - 1) \o <<x>> \o SubSeq(s, p, Len(s))

RECURSIVE SortLoop(_, _, _, _)
SortLoop(done, todo, key, reverse) ==
    IF todo = <<>> THEN done
    ELSE SortLoop(InsertAt(done, InsertPos(done, Head(todo), key, reverse), Head(todo)),
                  Tail(todo), key, reverse)

\* the indices 1..Len(key) sorted by key
SortIndices(key, reverse) ==
    SortLoop(<<>>, [i \in 1..Len(key) |-> i], key, reverse)

----------------------------------------------------------------------------
(* Retrieval metrics: _calc_metrics and its local _compute_ap. *)

SeqToSet(s) == {s[i] : i \in 1..Len(s)}

\* the sequence f with every element evaluated, once
Evaluated(f) == f \o <<>>

\* state of the rank walk before the first position
WalkInit(top_inds) ==
    [loc_cmc |-> Evaluated([n \in 1..Len(top_inds) |-> 0]),
     old_recall |-> RZero, old_precision |-> ROne, loc_ap |-> RZero,
     intersect_size |-> 0, j |-> 0, num_good_now |-> 0]

\* WalkStep without the factor 0.5 of the trapezoid
WalkStepNoHalf(st, n, good_inds, top_inds) ==
    LET num_good_total == Len(good_inds)
        flag == top_inds[n] \in SeqToSet(good_inds)
        cmc2 == IF flag
                THEN SubSeq(st.loc_cmc, 1, n - 1) \o
                     [m \in 1..(Len(top_inds) - n + 1) |-> 1]
                ELSE st.loc_cmc
        good2 == IF flag THEN st.num_good_now + 1 ELSE st.num_good_now
        isect2 == IF flag THEN st.intersect_size + 1 ELSE st.intersect_size
        recall == IF num_good_total > 0 THEN Rat(isect2, num_good_total) ELSE RZero
        precision == Rat(isect2, st.j + 1)
        ap2 == RAdd(st.loc_ap,
                    RMul(RSub(recall, st.old_recall),
                         RAdd(st.old_precision, precision)))
    IN  [loc_cmc |-> cmc2, old_recall |-> recall, old_precision |-> precision,
         loc_ap |-> ap2, intersect_size |-> isect2, j |-> st.j + 1,
         num_good_now |-> good2]

\* WalkStep with loc_cmc[n] = 1 in place of loc_cmc[n:] = 1
WalkStepOneRank(st, n, good_inds, top_inds) ==
    LET num_good_total == Len(good_inds)
        flag == top_inds[n] \in SeqToSet(good_inds)
        cmc2 == IF flag
                THEN SubSeq(st.loc_cmc, 1, n - 1) \o <<1>> \o
                     SubSeq(st.loc_cmc, n + 1, Len(top_inds))
                ELSE st.loc_cmc
        good2 == IF flag THEN st.num_good_now + 1 ELSE st.num_good_now
        isect2 == IF flag THEN st.intersect_size + 1 ELSE st.intersect_size
        recall == IF num_good_total > 0 THEN Rat(isect2, num_good_total) ELSE RZero
        precision == Rat(isect2, st.j + 1)
        ap2 == RAdd(st.loc_ap,
                    RMul(RHalf, RMul(RSub(recall, st.old_recall),
                                     RAdd(st.old_precision, precision))))
    IN  [loc_cmc |-> cmc2, old_recall |-> recall, old_precision |-> precision,
         loc_ap |-> ap2, intersect_size |-> isect2, j |-> st.j + 1,
         num_good_now |-> good2]

\* one pass of the for loop body, at rank n (lines 363-377)
WalkStep(st, n, good_inds, top_inds) ==
    LET num_good_total == Len(good_inds)
        flag == top_inds[n] \in SeqToSet(good_inds)
        \* loc_cmc[n:] = 1
        cmc2 == IF flag
                THEN SubSeq(st.loc_cmc, 1, n - 1) \o
                     [m \in 1..(Len(top_inds) - n + 1) |-> 1]
                ELSE st.loc_cmc
        good2 == IF flag THEN st.num_good_now + 1 ELSE st.num_good_now
        isect2 == IF flag THEN st.intersect_size + 1 ELSE st.intersect_size
        recall == IF num_good_total > 0 THEN Rat(isect2, num_good_total) ELSE RZero
        precision == Rat(isect2, st.j + 1)
        ap2 == RAdd(st.loc_ap,
                    RMul(RHalf, RMul(RSub(recall, st.old_recall),
                                     RAdd(st.old_precision, precision))))
    IN  [loc_cmc |-> cmc2, old_recall |-> recall, old_precision |-> precision,
         loc_ap |-> ap2, intersect_size |-> isect2, j |-> st.j + 1,
         num_good_now |-> good2]

\* the early-stop test applied only when there is a match to find
AllGoodFoundNonEmpty(num_good_now, num_good_total) ==
    num_good_total > 0 /\ num_good_now = num_good_total

\* the early-stop test firing at the first match
AllGoodFoundFirst(num_good_now, num_good_total) == num_good_now >= 1

\* the early-stop test (line 379)
AllGoodFound(num_good_now, num_good_total) == num_good_now = num_good_total

\* the for loop with its break (lines 362-380)
RECURSIVE Walk(_, _, _, _)
Walk(st, n, good_inds, top_inds) ==
    IF n > Len(top_inds) THEN st
    ELSE LET st2 == WalkStep(st, n, good_inds, top_inds)
         IN  IF AllGoodFound(st2.num_good_now, Len(good_inds)) THEN st2
             ELSE Walk(st2, n + 1, good_inds, top_inds)

\* _compute_ap: the final walk state holds loc_ap, loc_cmc and the number j
\* of ranks the loop has processed
_compute_ap(good_inds, top_inds) ==
    Walk(WalkInit(top_inds), 1, good_inds, top_inds)

\* gallery ids whose label equals the query's label, in gallery order
GoodIndices(gallery_labels, query_label) ==
    SelectSeq([i \in 1..Len(gallery_labels) |-> i],
              LAMBDA i : gallery_labels[i] = query_label)

\* gallery ids ranked by ascending distance to query k (stable)
TopIndices(dist, k) ==
    SortIndices([i \in 1..Len(dist) |-> dist[i][k]], FALSE)

_calc_metrics(dist, gallery_labels, query_labels) ==
    LET rank_size == Len(dist)
        res == Evaluated([k \in 1..Len(query_labels) |->
                   _compute_ap(GoodIndices(gallery_labels, query_labels[k]),
                               TopIndices(dist, k))])
        ap_all == [k \in 1..Len(query_labels) |-> res[k].loc_ap]
        cmc_all == [k \in 1..Len(query_labels) |-> res[k].loc_cmc]
    IN  [ap_all |-> Evaluated(ap_all),
         cmc_all |-> Evaluated(cmc_all),
         j_all |-> Evaluated([k \in 1..Len(query_labels) |-> res[k].j]),
         ap |-> RMean(ap_all),
         cmc |-> Evaluated([r \in 1..rank_size |->
                     RMean([k \in 1..Len(query_labels) |-> Rat(cmc_all[k][r], 1)])])]

\* distances = 1 - matmul(gallery_embeddings, transpose(query_embeddings)),
\* for one-dimensional embeddings
Distances(gallery_embeddings, query_embeddings) ==
    Evaluated([i \in 1..Len(gallery_embeddings) |->
        Evaluated([k \in 1..Len(query_embeddings) |->
            1 - gallery_embeddings[i] * query_embeddings[k]])])

\* position of cmc[4], the Rank@5 entry that _test_model logs
RankLogged == 5

\* _test_model: returns cmc[0], or None without test data; raises IndexError
\* when the log line reads cmc[4] of a curve shorter than that
_test_model(gallery_embeddings, query_embeddings) ==
    IF query_label_blobs = <<>> \/ gallery_label_blobs = <<>>
    THEN [raised |-> FALSE, value |-> NoneAcc]
    ELSE LET m == _calc_metrics(Distances(gallery_embeddings, query_embeddings),
                                gallery_label_blobs, query_label_blobs)
         IN  IF Len(m.cmc) < RankLogged
             THEN [raised |-> TRUE, value |-> NoneAcc]
             ELSE [raised |-> FALSE, value |-> m.cmc[1]]

----------------------------------------------------------------------------
(* Hard-example mining. *)

\* self.num_hardest of _init (lines 122-124); f = <<p, q>> is the fraction
NumHardest(n_samples, f, vbs) ==
    LET truncated == (n_samples * f[1]) \div f[2]
        rounded == ((truncated \div vbs) + 1) * vbs
    IN  IF n_samples <= rounded THEN n_samples ELSE rounded

\* _find_hardest_samples: pool indices by loss descending, the first
\* num_hardest of them
_find_hardest_samples(losses, keep) ==
    LET indexed_losses == SortIndices(losses, TRUE)
    IN  SubSeq(indexed_losses, 1, IF keep < Len(losses) THEN keep ELSE Len(losses))

----------------------------------------------------------------------------
(* Corpus index: SampleDataFromDisk. *)

\* manifests of up to n lines: the label of each line; sample ids are the
\* line numbers, and the first label met is called 1
Manifests(n) ==
    {m \in UNION {[1..k -> 1..MaxLabel] : k \in 1..n} : m[1] = 1}

\* _ids_by_label after the constructor has read the manifest
IdsByLabel(manifest) ==
    [l \in SeqToSet(manifest) |->
        SelectSeq([i \in 1..Len(manifest) |-> i], LAMBDA i : manifest[i] = l)]

\* get_ids_by_labels returning the ids of the whole corpus for every label
GetIdsOfAnyLabel(label) ==
    LET all_ids == UNION {{ids_by_label[l][n] : n \in 1..Len(ids_by_label[l])} :
                             l \in DOMAIN ids_by_label}
    IN  [i \in 1..Cardinality(all_ids) |-> i]

\* get_ids_by_labels
get_ids_by_labels(label) ==
    IF label \in DOMAIN ids_by_label THEN ids_by_label[label] ELSE <<>>

\* get_num_labels
get_num_labels == Cardinality(DOMAIN ids_by_label)

\* label of a sample id (get_image's second result)
LabelOf(sample_id) ==
    CHOOSE l \in DOMAIN ids_by_label : sample_id \in SeqToSet(ids_by_label[l])

\* all orders of a finite set (np.random.shuffle)
Shuffles(S) ==
    {p \in [1..Cardinality(S) -> S] : \A a, b \in 1..Cardinality(S) : p[a] = p[b] => a = b}

----------------------------------------------------------------------------
(* The solver's initial weights and the difficulty schedule. *)

\* the value of an option that was not given
None == "None"

\* what a freshly constructed caffe.SGDSolver holds (line 97): nothing
\* restored, nothing copied
NothingLoaded == [restored |-> None, copied |-> <<>>]

\* the for loop over weights.split(',') (lines 103-108): every path that
\* exists is copied into the nets, in order; a missing one is passed over
RECURSIVE CopyWeights(_, _)
CopyWeights(weights_paths, existing) ==
    IF weights_paths = <<>> THEN <<>>
    ELSE (IF Head(weights_paths) \in existing
          THEN <<Head(weights_paths)>> ELSE <<>>)
         \o CopyWeights(Tail(weights_paths), existing)

\* _init_solver with the weights copied after a restored snapshot as well
InitSolverNoElif(weights, snapshot, existing) ==
    [restored |-> IF snapshot # None /\ snapshot \in existing
                  THEN snapshot ELSE None,
     copied |-> CopyWeights(weights, existing)]

\* _init_solver (lines 96-108); weights is the list of the paths between the
\* commas of --weights, <<>> for None
_init_solver(weights, snapshot, existing) ==
    IF snapshot # None /\ snapshot \in existing
    THEN [restored |-> snapshot, copied |-> <<>>]
    ELSE IF weights # <<>>
         THEN [restored |-> None, copied |-> CopyWeights(weights, existing)]
         ELSE NothingLoaded

\* np.minimum of two numbers (line 489)
RMin(a, b) == IF RLeq(a, b) THEN a ELSE b

\* Difficulty without the clip at max_difficulty
DifficultyUnclipped(iter, max_difficulty, max_difficulty_iter) ==
    RMul(RMul(Rat(iter, 1), max_difficulty), Rat(1, max_difficulty_iter))

\* lines 487-489, for max_difficulty_iter # 0
Difficulty(iter, max_difficulty, max_difficulty_iter) ==
    RMin(max_difficulty,
         RMul(RMul(Rat(iter, 1), max_difficulty), Rat(1, max_difficulty_iter)))

----------------------------------------------------------------------------
(* Initial states. *)

\* --sampler_fraction values, as exact binary fractions
SamplerFractions == {<<0, 1>>, <<1, 2>>, <<1, 1>>}

\* embeddings are one-dimensional and normalised
EmbValues == {-1, 1}

\* held-out data of the training loop: none, or a gallery of two labels just
\* long enough for the logged Rank@5 (a shorter one makes the log line of
\* _test_model raise) with one query per label
TestData ==
    {[gallery |-> <<>>, query |-> <<>>],
     [gallery |-> <<1, 2, 1, 2, 1>>, query |-> <<1, 2>>]}

\* the configurations of the training loop: data manifests of one label with
\* one or two images and of two labels, and the options that with them give
\* the pool size and the virtual batch size
LoopManifests == {<<1>>, <<1, 1>>, <<1, 2>>}
NumImages == {1, 2}
BatchSizes == {1, 2}
IterSizes == {1, 2}

\* the argparse defaults of the difficulty schedule (lines 558-559) and of
\* the solver's initial weights (lines 551-552)
DefaultSchedule == [max_difficulty : {ROne}, max_difficulty_iter : {500}]
DefaultStart == [snapshot : {None}, weights : {<<>>}]

\* the paths --snapshot and --weights can name
Paths == {"a", "b"}

\* --max_difficulty values
MaxDifficulties == {RZero, RHalf, ROne, <<2, 1>>}

\* a record of options: one of a and one of b together
Options(A, B) ==
    {[f \in DOMAIN a \cup DOMAIN b |-> IF f \in DOMAIN a THEN a[f] ELSE b[f]] :
        a \in A, b \in B}

\* what every specification leaves at rest until its steps set it
Idle ==
    /\ spc = "shuffle"
    /\ solver_loaded = NothingLoaded
    /\ difficulty = NoneAcc
    /\ train_iter = 0
    /\ virtual_batch_size = 0
    /\ num_hardest = 0
    /\ best_rank1_acc = RZero
    /\ best_iter = 0
    /\ rank1_acc = NoneAcc
    /\ all_labels = <<>>
    /\ label_pos = 0
    /\ data_ids = <<>>
    /\ label_blobs = <<>>
    /\ loss_values = <<>>
    /\ hard_sample_ids = <<>>
    /\ num_snapshots = 0
    /\ distances = <<>>
    /\ metrics = <<>>

\* the state after SolverWrapper.__init__ (lines 196-206)
Init ==
    /\ pc = "Init"
    /\ \E m \in LoopManifests : ids_by_label = IdsByLabel(m)
    /\ param \in Options([num_images : NumImages, batch_size : BatchSizes,
                           sampler_fraction : SamplerFractions],
                          Options(DefaultSchedule, DefaultStart))
    /\ files = {}
    /\ solver_param \in [iter_size : IterSizes, max_iter : 0..MaxIter]
    /\ num_samples = get_num_labels * param.num_images
    /\ \E t \in TestData :
          /\ gallery_label_blobs = t.gallery
          /\ query_label_blobs = t.query
    /\ Idle

----------------------------------------------------------------------------
(* The worker process: _process = _init; _solve. *)

samplerVars == <<spc, all_labels, label_pos>>
evalVars == <<distances, metrics>>
configVars == <<ids_by_label, param, files, solver_param, num_samples,
                query_label_blobs, gallery_label_blobs>>
startVars == <<solver_loaded, difficulty>>
trackVars == <<best_rank1_acc, best_iter, rank1_acc>>

\* _init (lines 114-126) and the first two lines of _solve (481-482)
_init ==
    /\ pc = "Init"
    /\ solver_loaded' = _init_solver(param.weights, param.snapshot, files)
    /\ virtual_batch_size' = param.batch_size * solver_param.iter_size
    /\ num_hardest' = NumHardest(num_samples, param.sampler_fraction,
                                 param.batch_size * solver_param.iter_size)
    /\ best_rank1_acc' = RZero
    /\ best_iter' = 0
    /\ pc' = "LoopHead"
    /\ UNCHANGED <<configVars, samplerVars, evalVars, difficulty, train_iter,
                   rank1_acc, data_ids, label_blobs, loss_values, hard_sample_ids,
                   num_snapshots>>

\* the while test of _solve (line 484)
LoopTest(iter, max_iter) == iter < max_iter

\* lines 484-490: leave the loop, or set the difficulty of the meta-iteration;
\* the float division raises ZeroDivisionError for --max_difficulty_iter 0
LoopHead ==
    /\ pc = "LoopHead"
    /\ IF LoopTest(train_iter, solver_param.max_iter)
       THEN IF param.max_difficulty_iter = 0
            THEN /\ pc' = "Aborted"
                 /\ UNCHANGED difficulty
            ELSE /\ difficulty' = Difficulty(train_iter, param.max_difficulty,
                                             param.max_difficulty_iter)
                 /\ pc' = "Evaluating"
       ELSE /\ pc' = "Done"
            /\ UNCHANGED difficulty
    /\ UNCHANGED <<configVars, samplerVars, evalVars, solver_loaded, trackVars,
                   train_iter,
                   virtual_batch_size, num_hardest, data_ids, label_blobs,
                   loss_values, hard_sample_ids, num_snapshots>>

\* rank1_acc > best_rank1_acc; None compares below every number
PyGreater(a, b) == a # NoneAcc /\ RLess(b, a)

\* BestUpdate with >= in place of >
BestUpdateOnTie(rank1, best, bestIter, iter) ==
    IF rank1 # NoneAcc /\ RLeq(best, rank1)
    THEN <<rank1, iter - 1>> ELSE <<best, bestIter>>

\* lines 493-495: the new <<best_rank1_acc, best_iter>>
BestUpdate(rank1, best, bestIter, iter) ==
    IF PyGreater(rank1, best) THEN <<rank1, iter - 1>> ELSE <<best, bestIter>>

\* lines 492-495: evaluate the model and track the best result
Evaluating ==
    /\ pc = "Evaluating"
    /\ \E ge \in [1..Len(gallery_label_blobs) -> EmbValues],
          qe \in [1..Len(query_label_blobs) -> EmbValues] :
          \E r \in {_test_model(ge, qe)} :
          LET b == BestUpdate(r.value, best_rank1_acc, best_iter, train_iter)
          IN  IF r.raised
              THEN /\ pc' = "Aborted"
                   /\ UNCHANGED trackVars
              ELSE /\ pc' = "Sampling"
                   /\ rank1_acc' = r.value
                   /\ best_rank1_acc' = b[1]
                   /\ best_iter' = b[2]
    /\ UNCHANGED <<configVars, samplerVars, evalVars, startVars, train_iter,
                   virtual_batch_size, num_hardest, data_ids, label_blobs,
                   loss_values, hard_sample_ids, num_snapshots>>

othersInSampler == <<configVars, evalVars, startVars, trackVars,
                   train_iter,
                     virtual_batch_size, num_hardest, label_blobs, loss_values,
                     hard_sample_ids, num_snapshots>>

\* _sample_data_ids, lines 320-323: shuffle the labels, start with no ids
Shuffle ==
    /\ pc = "Sampling" /\ spc = "shuffle"
    /\ all_labels' \in Shuffles(DOMAIN ids_by_label)
    /\ data_ids' = <<>>
    /\ spc' = "while"
    /\ UNCHANGED <<pc, label_pos, othersInSampler>>

\* the while test (line 324); on exit, truncate and return (lines 332-334)
WhileTest ==
    /\ pc = "Sampling" /\ spc = "while"
    /\ IF Len(data_ids) < num_samples
       THEN IF all_labels = <<>>
            THEN UNCHANGED <<pc, spc, label_pos, data_ids>>
            ELSE /\ spc' = "for"
                 /\ label_pos' = 1
                 /\ UNCHANGED <<pc, data_ids>>
       ELSE /\ data_ids' = SubSeq(data_ids, 1, num_samples)
            /\ spc' = "shuffle"
            /\ label_pos' = 0
            /\ pc' = "Augmenting"
    /\ UNCHANGED <<all_labels, othersInSampler>>

\* ForLabel drawing from the first shuffled label in every pass
ForLabelFirstOnly ==
    /\ pc = "Sampling" /\ spc = "for"
    /\ LET label == all_labels[1]
           label_ids == get_ids_by_labels(label)
       IN  IF Len(label_ids) <= 0
           THEN UNCHANGED data_ids
           ELSE \E c \in 1..Len(label_ids) :
                    data_ids' = Append(data_ids, label_ids[c])
    /\ IF label_pos < Len(all_labels)
       THEN label_pos' = label_pos + 1 /\ spc' = "for"
       ELSE label_pos' = 0 /\ spc' = "while"
    /\ UNCHANGED <<pc, all_labels, othersInSampler>>

\* one pass of the for loop over the shuffled labels (lines 325-330)
ForLabel ==
    /\ pc = "Sampling" /\ spc = "for"
    /\ LET label == all_labels[label_pos]
           label_ids == get_ids_by_labels(label)
       IN  IF Len(label_ids) <= 0
           THEN UNCHANGED data_ids
           ELSE \E c \in 1..Len(label_ids) :
                    data_ids' = Append(data_ids, label_ids[c])
    /\ IF label_pos < Len(all_labels)
       THEN label_pos' = label_pos + 1 /\ spc' = "for"
       ELSE label_pos' = 0 /\ spc' = "while"
    /\ UNCHANGED <<pc, all_labels, othersInSampler>>

\* _prepare_data (lines 336-347): the label of every pool entry; data_ids
\* is not read again
Augmenting ==
    /\ pc = "Augmenting"
    /\ label_blobs' = [i \in 1..Len(data_ids) |-> LabelOf(data_ids[i])]
    /\ data_ids' = <<>>
    /\ pc' = "Scoring"
    /\ UNCHANGED <<configVars, samplerVars, evalVars, startVars, trackVars,
                   train_iter,
                   virtual_batch_size, num_hardest, loss_values,
                   hard_sample_ids, num_snapshots>>

\* _estimate_losses (lines 432-437): one loss per pool entry, from the network
Scoring ==
    /\ pc = "Scoring"
    /\ loss_values' \in [1..num_samples -> 0..MaxLoss]
    /\ pc' = "Mining"
    /\ UNCHANGED <<configVars, samplerVars, evalVars, startVars, trackVars,
                   train_iter,
                   virtual_batch_size, num_hardest, data_ids, label_blobs,
                   hard_sample_ids, num_snapshots>>

\* line 501
Mining ==
    /\ pc = "Mining"
    /\ hard_sample_ids' = _find_hardest_samples(loss_values, num_hardest)
    /\ pc' = "Optimizing"
    /\ UNCHANGED <<configVars, samplerVars, evalVars, startVars, trackVars,
                   train_iter,
                   virtual_batch_size, num_hardest, data_ids, label_blobs,
                   loss_values, num_snapshots>>

\* the two assertions that open _train (lines 461-462)
TrainPrecondition(ids, vbs) == Len(ids) >= vbs /\ Len(ids) % vbs = 0

\* _train (lines 460-475): AssertionError ends the process; otherwise the
\* solver steps over the ids, and neither they nor the losses are read again
Optimizing ==
    /\ pc = "Optimizing"
    /\ IF TrainPrecondition(hard_sample_ids, virtual_batch_size)
       THEN /\ pc' = "Checkpointing"
            /\ hard_sample_ids' = <<>>
            /\ loss_values' = <<>>
       ELSE /\ pc' = "Aborted"
            /\ UNCHANGED <<hard_sample_ids, loss_values>>
    /\ UNCHANGED <<configVars, samplerVars, evalVars, startVars, trackVars,
                   train_iter,
                   virtual_batch_size, num_hardest, data_ids, label_blobs,
                   num_snapshots>>

\* Checkpointing that keeps a snapshot only of a round that matched the best
CheckpointingOnlyBest ==
    /\ pc = "Checkpointing"
    /\ num_snapshots' = IF rank1_acc = best_rank1_acc
                        THEN num_snapshots + 1 ELSE num_snapshots
    /\ pc' = "Advancing"
    /\ UNCHANGED <<configVars, samplerVars, evalVars, startVars, trackVars,
                   train_iter,
                   virtual_batch_size, num_hardest, data_ids, label_blobs,
                   loss_values, hard_sample_ids>>

\* _save_state (line 505)
Checkpointing ==
    /\ pc = "Checkpointing"
    /\ num_snapshots' = num_snapshots + 1
    /\ pc' = "Advancing"
    /\ UNCHANGED <<configVars, samplerVars, evalVars, startVars, trackVars,
                   train_iter,
                   virtual_batch_size, num_hardest, data_ids, label_blobs,
                   loss_values, hard_sample_ids>>

\* line 508; rank1_acc is rebound by the next pass before it is read
Advancing ==
    /\ pc = "Advancing"
    /\ train_iter' = train_iter + 1
    /\ rank1_acc' = NoneAcc
    /\ pc' = "LoopHead"
    /\ UNCHANGED <<configVars, samplerVars, evalVars, startVars, best_rank1_acc,
                   best_iter,
                   virtual_batch_size, num_hardest, data_ids, label_blobs,
                   loss_values, hard_sample_ids, num_snapshots>>

Next ==
    \/ _init
    \/ LoopHead
    \/ Evaluating
    \/ Shuffle
    \/ WhileTest
    \/ ForLabel
    \/ Augmenting
    \/ Scoring
    \/ Mining
    \/ Optimizing
    \/ Checkpointing
    \/ Advancing

Spec == Init /\ [][Next]_vars

----------------------------------------------------------------------------
(* The balanced sampler on its own: one call of _sample_data_ids, for every *)
(* corpus of up to MaxLines lines and every --num_images from 0.            *)

InitSampler ==
    /\ pc = "Sampling"
    /\ \E m \in Manifests(MaxLines) : ids_by_label = IdsByLabel(m)
    /\ param \in Options([num_images : 0..MaxImages, batch_size : {1},
                           sampler_fraction : {ROne}],
                          Options(DefaultSchedule, DefaultStart))
    /\ files = {}
    /\ solver_param = [iter_size |-> 1, max_iter |-> 1]
    /\ num_samples = get_num_labels * param.num_images
    /\ gallery_label_blobs = <<>>
    /\ query_label_blobs = <<>>
    /\ Idle

NextSampler ==
    \/ Shuffle
    \/ WhileTest
    \/ ForLabel

\* the worker is one sequential process: a step that can be taken is taken
SpecSampler == InitSampler /\ [][NextSampler]_vars /\ WF_vars(NextSampler)

----------------------------------------------------------------------------
(* The miner on its own: one call of _find_hardest_samples, for every loss  *)
(* vector of up to MaxPool entries and every keep count _init can compute.  *)

InitMiner ==
    /\ pc = "Mining"
    /\ ids_by_label = IdsByLabel(<<1>>)
    /\ param \in Options([num_images : 1..MaxPool, batch_size : 1..MaxBatch,
                           sampler_fraction : SamplerFractions],
                          Options(DefaultSchedule, DefaultStart))
    /\ files = {}
    /\ solver_loaded = NothingLoaded
    /\ difficulty = RZero
    /\ solver_param \in [iter_size : 1..MaxIterSize, max_iter : {1}]
    /\ num_samples = get_num_labels * param.num_images
    /\ gallery_label_blobs = <<>>
    /\ query_label_blobs = <<>>
    /\ spc = "shuffle"
    /\ train_iter = 0
    /\ virtual_batch_size = param.batch_size * solver_param.iter_size
    /\ num_hardest = NumHardest(num_samples, param.sampler_fraction,
                                virtual_batch_size)
    /\ best_rank1_acc = RZero
    /\ best_iter = 0
    /\ rank1_acc = NoneAcc
    /\ all_labels = <<>>
    /\ label_pos = 0
    /\ data_ids = <<>>
    /\ label_blobs = [i \in 1..num_samples |-> 1]
    /\ loss_values \in [1..num_samples -> 0..MaxLoss]
    /\ hard_sample_ids = <<>>
    /\ num_snapshots = 0
    /\ distances = <<>>
    /\ metrics = <<>>

NextMiner == Mining

SpecMiner == InitMiner /\ [][NextMiner]_vars

----------------------------------------------------------------------------
(* The evaluator on its own: one call of _calc_metrics for one query, for   *)
(* every gallery of up to MaxGallery entries, every query label (one more   *)
(* label than the gallery can hold) and every distance column.              *)

InitEval ==
    /\ pc = "calc_metrics"
    /\ ids_by_label = IdsByLabel(<<1>>)
    /\ param \in Options([num_images : {1}, batch_size : {1},
                           sampler_fraction : {ROne}],
                          Options(DefaultSchedule, DefaultStart))
    /\ files = {}
    /\ solver_loaded = NothingLoaded
    /\ difficulty = RZero
    /\ solver_param = [iter_size |-> 1, max_iter |-> 1]
    /\ num_samples = 1
    /\ gallery_label_blobs \in UNION {[1..n -> 1..MaxLabel] : n \in 1..MaxGallery}
    /\ query_label_blobs \in [1..1 -> 1..(MaxLabel + 1)]
    /\ spc = "shuffle"
    /\ train_iter = 0
    /\ virtual_batch_size = 0
    /\ num_hardest = 0
    /\ best_rank1_acc = RZero
    /\ best_iter = 0
    /\ rank1_acc = NoneAcc
    /\ all_labels = <<>>
    /\ label_pos = 0
    /\ data_ids = <<>>
    /\ label_blobs = <<>>
    /\ loss_values = <<>>
    /\ hard_sample_ids = <<>>
    /\ num_snapshots = 0
    /\ distances \in [1..Len(gallery_label_blobs) ->
                         [1..Len(query_label_blobs) -> 0..MaxDist]]
    /\ metrics = <<>>

\* line 427: the call of _calc_metrics
CalcMetrics ==
    /\ pc = "calc_metrics"
    /\ metrics' = _calc_metrics(distances, gallery_label_blobs, query_label_blobs)
    /\ pc' = "calc_done"
    /\ UNCHANGED <<configVars, samplerVars, startVars, trackVars,
                   train_iter,
                   virtual_batch_size, num_hardest, data_ids, label_blobs,
                   loss_values, hard_sample_ids, num_snapshots, distances>>

NextEval == CalcMetrics

SpecEval == InitEval /\ [][NextEval]_vars

----------------------------------------------------------------------------
(* The difficulty schedule: the training loop over one label with one image *)
(* and no held-out data, for every --max_difficulty of MaxDifficulties,     *)
(* every --max_difficulty_iter from 0 and enough meta-iterations to pass    *)
(* the largest of them.                                                     *)

InitSchedule ==
    /\ pc = "Init"
    /\ ids_by_label = IdsByLabel(<<1>>)
    /\ param \in Options([num_images : {1}, batch_size : {1},
                           sampler_fraction : {ROne}],
                          Options([max_difficulty : MaxDifficulties,
                                   max_difficulty_iter : 0..MaxDifficultyIter],
                                  DefaultStart))
    /\ files = {}
    /\ solver_param \in [iter_size : {1}, max_iter : 0..(MaxDifficultyIter + 1)]
    /\ num_samples = get_num_labels * param.num_images
    /\ gallery_label_blobs = <<>>
    /\ query_label_blobs = <<>>
    /\ Idle

SpecSchedule == InitSchedule /\ [][Next]_vars

----------------------------------------------------------------------------
(* The solver's initial weights: the same small training loop, for every    *)
(* --snapshot and every --weights of up to MaxWeights paths over Paths, and *)
(* every set of them existing on disk.                                      *)

WeightsLists == UNION {[1..n -> Paths] : n \in 0..MaxWeights}

InitStart ==
    /\ pc = "Init"
    /\ ids_by_label = IdsByLabel(<<1>>)
    /\ param \in Options([num_images : {1}, batch_size : {1},
                           sampler_fraction : {ROne}],
                          Options(DefaultSchedule,
                                  [snapshot : Paths \cup {None},
                                   weights : WeightsLists]))
    /\ files \in SUBSET Paths
    /\ solver_param \in [iter_size : {1}, max_iter : {0, 1}]
    /\ num_samples = get_num_labels * param.num_images
    /\ gallery_label_blobs = <<>>
    /\ query_label_blobs = <<>>
    /\ Idle

SpecStart == InitStart /\ [][Next]_vars

----------------------------------------------------------------------------
(* Properties. *)

Min(a, b) == IF a <= b THEN a ELSE b

\* the smallest multiple of g that is at least the rational x
CeilToMultiple(x, g) == g * ((x[1] + x[2] * g - 1) \div (x[2] * g))

\* C1: in every meta-iteration, for a pool of at least one sample, the ids
\* that mining hands to _train are a positive multiple of the virtual batch
\* size in number, so both assertions of _train hold.
C1_MinedBatchIsMultiple ==
    (pc = "Optimizing" /\ num_samples >= 1 /\ virtual_batch_size >= 1) =>
        /\ Len(hard_sample_ids) >= virtual_batch_size
        /\ Len(hard_sample_ids) % virtual_batch_size = 0

\* C2: the keep count is len(losses) * keep_fraction rounded up to the nearest
\* multiple of the virtual batch size, clamped to len(losses); an exact
\* multiple is kept as it is.
C2_KeepCountIsCeiling ==
    pc \notin {"Init"} =>
        num_hardest =
            Min(num_samples,
                CeilToMultiple(RMul(Rat(num_samples, 1), param.sampler_fraction),
                               virtual_batch_size))

\* the steps of one meta-iteration in their order, and the loop around them
StepOrder ==
    {<<"Init", "LoopHead">>, <<"LoopHead", "Evaluating">>, <<"LoopHead", "Done">>,
     <<"Evaluating", "Sampling">>, <<"Sampling", "Augmenting">>,
     <<"Augmenting", "Scoring">>, <<"Scoring", "Mining">>,
     <<"Mining", "Optimizing">>, <<"Optimizing", "Checkpointing">>,
     <<"Checkpointing", "Advancing">>, <<"Advancing", "LoopHead">>}

\* C3: every meta-iteration runs evaluate, sample, augment, score, mine,
\* optimize, checkpoint in that order, one step at a time; the counter grows
\* by one, and only after the checkpoint; the loop ends in Done exactly when
\* the counter equals max_iter.
C3_LoopOrder ==
    [][/\ pc' # pc => <<pc, pc'>> \in StepOrder
       /\ train_iter' # train_iter =>
             /\ pc = "Advancing"
             /\ train_iter' = train_iter + 1
             /\ num_snapshots = train_iter + 1
       /\ (pc = "LoopHead" /\ pc' # pc) =>
             (pc' = "Done" <=> train_iter = solver_param.max_iter)]_vars

\* C4, as claimed: an evaluation that strictly exceeds the running best
\* replaces it and records the meta-iteration the evaluation ran at; any other
\* step leaves both unchanged.
C4_BestIterIsEvaluationIter ==
    [][IF pc = "Evaluating" /\ pc' = "Sampling" /\ PyGreater(rank1_acc', best_rank1_acc)
       THEN best_rank1_acc' = rank1_acc' /\ best_iter' = train_iter
       ELSE UNCHANGED <<best_rank1_acc, best_iter>>]_vars

\* C4, amended: an evaluation that strictly exceeds the running best replaces
\* it and records the meta-iteration before the one the evaluation ran at
\* (train_iter - 1, so -1 for meta-iteration 0); any other step leaves both
\* unchanged, so the best value never decreases from its initial 0.
C4_BestTracking ==
    [][/\ IF pc = "Evaluating" /\ pc' = "Sampling"
             /\ PyGreater(rank1_acc', best_rank1_acc)
          THEN best_rank1_acc' = rank1_acc' /\ best_iter' = train_iter - 1
          ELSE UNCHANGED <<best_rank1_acc, best_iter>>
       /\ RLeq(best_rank1_acc, best_rank1_acc')
       /\ train_iter = 0 /\ pc \in {"Init", "LoopHead", "Evaluating"} =>
             best_rank1_acc = RZero /\ best_iter = 0]_vars

\* an evaluation in meta-iteration 1 has improved on a best of meta-iteration 0
C4_Witness ==
    /\ pc = "Sampling"
    /\ train_iter = 1
    /\ rank1_acc = ROne
    /\ best_rank1_acc = ROne
    /\ best_iter = 0

\* C5: after k completed meta-iterations exactly k checkpoints have been
\* taken, and a meta-iteration past its optimization step takes exactly one,
\* whatever its evaluation gave and whether or not there is held-out data.
C5_OneCheckpointPerIteration ==
    /\ num_snapshots = train_iter + (IF pc = "Advancing" THEN 1 ELSE 0)
    /\ pc = "Checkpointing" => num_snapshots = train_iter

\* two meta-iterations with held-out data, neither improving on the best
C5_Witness ==
    /\ pc = "Done"
    /\ train_iter = 2
    /\ num_snapshots = 2
    /\ gallery_label_blobs # <<>>
    /\ best_rank1_acc = RZero

NoGood(k) == GoodIndices(gallery_label_blobs, query_label_blobs[k]) = <<>>

\* C6, as claimed: a query without a matching gallery entry walks the full
\* ranked list, and yields AP = 0 and an all-zero CMC vector.
C6_NoMatchWalksFullList ==
    pc = "calc_done" =>
        \A k \in 1..Len(query_label_blobs) :
            NoGood(k) =>
                /\ metrics.j_all[k] = Len(gallery_label_blobs)
                /\ metrics.ap_all[k] = RZero
                /\ \A r \in 1..Len(gallery_label_blobs) : metrics.cmc_all[k][r] = 0

\* C6, amended: a query without a matching gallery entry stops after the
\* first ranked position (num_good_now == num_good_total holds with both 0),
\* and yields AP = 0 and an all-zero CMC vector, without an error.
C6_NoMatchStopsAtFirstRank ==
    pc = "calc_done" =>
        \A k \in 1..Len(query_label_blobs) :
            NoGood(k) =>
                /\ metrics.j_all[k] = 1
                /\ metrics.ap_all[k] = RZero
                /\ \A r \in 1..Len(gallery_label_blobs) : metrics.cmc_all[k][r] = 0

\* a gallery of three, none of them with the query's label
C6_Witness ==
    /\ pc = "calc_done"
    /\ Len(gallery_label_blobs) = 3
    /\ NoGood(1)
    /\ metrics.j_all[1] = 1

\* C7: the miner returns exactly num_hardest pool indices, those with the
\* largest losses, by loss descending and, among equal losses, by pool index
\* ascending, also at the cut.
Harder(a, b) ==
    \/ loss_values[a] > loss_values[b]
    \/ loss_values[a] = loss_values[b] /\ a < b

C7_MinerOrdering ==
    (pc = "Optimizing" /\ loss_values # <<>>) =>
        /\ Len(hard_sample_ids) = num_hardest
        /\ \A a, b \in 1..Len(hard_sample_ids) :
              a < b => Harder(hard_sample_ids[a], hard_sample_ids[b])
        /\ \A a \in 1..Len(hard_sample_ids) :
              \A i \in (1..Len(loss_values)) \ SeqToSet(hard_sample_ids) :
                  Harder(hard_sample_ids[a], i)

\* the cut falls between two samples of equal loss, and a harder sample
\* stands behind both in the pool
C7_Witness ==
    /\ pc = "Optimizing"
    /\ Len(loss_values) = 4
    /\ Len(hard_sample_ids) = 2
    /\ hard_sample_ids = <<4, 1>>
    /\ loss_values[1] = loss_values[2]

\* C8: the sampler returns exactly num_samples ids; when that is at least the
\* number of labels, every label with ids has one of its ids among them; and
\* the sampler returns.
C8_SamplerCountAndCoverage ==
    /\ [](pc = "Augmenting" =>
            /\ Len(data_ids) = num_samples
            /\ num_samples >= get_num_labels =>
                  \A l \in DOMAIN ids_by_label :
                      ids_by_label[l] # <<>> =>
                          \E i \in 1..Len(data_ids) :
                              data_ids[i] \in SeqToSet(ids_by_label[l]))
    /\ ((\E l \in DOMAIN ids_by_label : ids_by_label[l] # <<>>) =>
            <>(pc = "Augmenting"))

\* two sweeps over two labels, the second drawing another id of label 1
C8_Witness ==
    /\ pc = "Augmenting"
    /\ get_num_labels = 2
    /\ Len(data_ids) = 4
    /\ \E i, k \in 1..4 : i # k /\ data_ids[i] # data_ids[k]
                          /\ LabelOf(data_ids[i]) = LabelOf(data_ids[k])

\* C9: every query's Average Precision lies in [0, 1], and is 0 for a query
\* without a matching gallery entry.
C9_APBounds ==
    pc = "calc_done" =>
        \A k \in 1..Len(query_label_blobs) :
            /\ RLeq(RZero, metrics.ap_all[k])
            /\ RLeq(metrics.ap_all[k], ROne)
            /\ NoGood(k) => metrics.ap_all[k] = RZero

\* two matches ranked second and third of three: an AP strictly inside (0, 1)
C9_Witness ==
    /\ pc = "calc_done"
    /\ Len(GoodIndices(gallery_label_blobs, query_label_blobs[1])) = 2
    /\ Len(gallery_label_blobs) = 3
    /\ RLess(RZero, metrics.ap_all[1])
    /\ RLess(metrics.ap_all[1], ROne)

\* rank of the first gallery index of the query's label (0 when there is none)
FirstGoodRank(k) ==
    LET top == TopIndices(distances, k)
        good == SeqToSet(GoodIndices(gallery_label_blobs, query_label_blobs[k]))
        ranks == {n \in 1..Len(top) : top[n] \in good}
    IN  IF ranks = {} THEN 0 ELSE CHOOSE n \in ranks : \A m \in ranks : n <= m

\* C10: every query's CMC vector never decreases with the rank, is 0 before
\* the first ranked gallery index of the query's label and 1 from there on,
\* so it is 1 at the last rank when the query has a match.
C10_CMCMonotone ==
    pc = "calc_done" =>
        \A k \in 1..Len(query_label_blobs) :
            LET cmc == metrics.cmc_all[k]
                first == FirstGoodRank(k)
            IN  /\ Len(cmc) = Len(gallery_label_blobs)
                /\ \A r \in 1..(Len(cmc) - 1) : cmc[r] <= cmc[r + 1]
                /\ first > 0 =>
                      /\ \A r \in 1..Len(cmc) : cmc[r] = (IF r < first THEN 0 ELSE 1)
                      /\ cmc[Len(cmc)] = 1

\* the first match is ranked second of three, behind a mismatch
C10_Witness ==
    /\ pc = "calc_done"
    /\ Len(gallery_label_blobs) = 3
    /\ FirstGoodRank(1) = 2
    /\ metrics.cmc_all[1] = <<0, 1, 1>>


----------------------------------------------------------------------------

\* the steps of one meta-iteration, from the evaluation to the advance of
\* train_iter
InMetaIter ==
    pc \in {"Evaluating", "Sampling", "Augmenting", "Scoring", "Mining",
            "Optimizing", "Checkpointing", "Advancing"}

----------------------------------------------------------------------------

\* --snapshot names a file that exists
SnapshotUsable == param.snapshot # None /\ param.snapshot \in files

\* the paths of --weights that exist, in their order
UsableWeights ==
    LET Exists(path) == path \in files
    IN  SelectSeq(param.weights, Exists)

\* C12 as stated: when neither the snapshot nor any weights file is usable,
\* initialization fails and no meta-iteration is run.
C12_FailsWhenNothingUsable ==
    (~SnapshotUsable /\ UsableWeights = <<>>) => ~InMetaIter

\* C12, amended: initialization restores the snapshot if one is given and
\* exists, and nothing else; otherwise it copies every weights path that
\* exists, in order; it always goes on to the training loop, with nothing
\* loaded when nothing is usable.
C12_InitLoadsWhatExists ==
    /\ [](pc # "Init" =>
            /\ SnapshotUsable =>
                  solver_loaded = [restored |-> param.snapshot, copied |-> <<>>]
            /\ ~SnapshotUsable =>
                  solver_loaded = [restored |-> None, copied |-> UsableWeights])
    /\ [][pc = "Init" => pc' = "LoopHead"]_vars

\* a meta-iteration running although the snapshot and the weights that were
\* given are all missing
C12_Witness ==
    /\ pc = "Evaluating"
    /\ param.snapshot # None
    /\ param.weights # <<>>
    /\ ~SnapshotUsable
    /\ UsableWeights = <<>>
    /\ solver_loaded = NothingLoaded


----------------------------------------------------------------------------

\* the rank walk of _compute_ap over the entire ranked list, never stopping
\* early
RECURSIVE WalkWhole(_, _, _, _)
WalkWhole(st, n, good_inds, top_inds) ==
    IF n > Len(top_inds) THEN st
    ELSE WalkWhole(WalkStep(st, n, good_inds, top_inds), n + 1,
                   good_inds, top_inds)

\* C13: for every query with at least one matching gallery index, the AP and
\* the CMC vector of the walk that stops once all matching indices are seen
\* equal those of the walk over the entire ranked list.
C13_EarlyStopIsPure ==
    pc = "calc_done" =>
        \A k \in 1..Len(query_label_blobs) :
            ~NoGood(k) =>
                LET good == GoodIndices(gallery_label_blobs, query_label_blobs[k])
                    top == TopIndices(distances, k)
                    whole == WalkWhole(WalkInit(top), 1, good, top)
                IN  /\ metrics.ap_all[k] = whole.loc_ap
                    /\ metrics.cmc_all[k] = whole.loc_cmc

\* two matches ranked first and second of three: the walk stops one rank
\* before the end of the list
C13_Witness ==
    /\ pc = "calc_done"
    /\ Len(gallery_label_blobs) = 3
    /\ Len(GoodIndices(gallery_label_blobs, query_label_blobs[1])) = 2
    /\ metrics.j_all[1] = 2

----------------------------------------------------------------------------

\* the number of pool entries that are ids of label l
PoolCount(l) ==
    Cardinality({i \in 1..Len(data_ids) :
                    data_ids[i] \in SeqToSet(ids_by_label[l])})

\* C14: the pool the sampler returns holds num_labels * num_images ids, and
\* exactly num_images of them are ids of each label of the corpus, however
\* many ids the labels have.
C14_PoolIsBalanced ==
    pc = "Augmenting" =>
        /\ Len(data_ids) = get_num_labels * param.num_images
        /\ \A l \in DOMAIN ids_by_label : PoolCount(l) = param.num_images

\* a corpus with two ids of label 1 and one of label 2, two images per
\* label: both ids of label 1 and the one id of label 2 twice
C14_Witness ==
    /\ pc = "Augmenting"
    /\ ids_by_label = IdsByLabel(<<1, 1, 2>>)
    /\ param.num_images = 2
    /\ SeqToSet(data_ids) = {1, 2, 3}
    /\ PoolCount(2) = 2

====
